---- MODULE Spec2Model ----
(***************************************************************************)
(* A model of braintools' learning-rate schedulers                         *)
(* (braintools/optim/_lr_scheduler.py) and of the cross_correlation metric *)
(* (braintools/metric/_correlation.py).                                    *)
(*                                                                         *)
(* Numbers.  Counters are int32 cells (bc.environ.ditype()), so "+ 1" is   *)
(* two's-complement addition.  Learning rates are exact rationals          *)
(* [n |-> _, d |-> _]; a schedule's value is kept as the arithmetic        *)
(* expression the code evaluates, in normal form, with its operands        *)
(* computed exactly (a record with a "tag" field), or as a rational where  *)
(* the code returns a stored number.                                       *)
(***************************************************************************)
EXTENDS Integers, Sequences, FiniteSets, TLC

VARIABLES
  cls,      \* class whose constructor has been called ("" before construction)
  args,     \* the constructor's arguments (<<>> before construction)
  error,    \* exception raised by the constructor, "none" if it returned
  self,     \* the instance's immutable attributes (<<>> if no instance exists)
  state,    \* the instance's State cells: last_epoch and, if present, last_call
  result,   \* the value returned by the last __call__ (<<>> if none yet)
  op,       \* the last operation executed on the scheduler
  arg,      \* the argument i of the last __call__: <<>> for None, <<i>> otherwise
  nEpoch,   \* number of step_epoch() calls so far
  nCall,    \* number of step_call() calls so far
  spikes,   \* cross_correlation: the spike matrix [shape, rows]
  bin,      \* cross_correlation: the bin argument
  dt,       \* cross_correlation: the dt argument
  method,   \* cross_correlation: the method argument ("" before the call)
  cc,       \* cross_correlation: the outcome (<<>> before the call)
  wc_x,     \* weighted_correlation: the x argument, an array [ndim, data]
  wc_y,     \* weighted_correlation: the y argument
  wc_w,     \* weighted_correlation: the w argument
  wc        \* weighted_correlation: the outcome (<<>> before the call)

schedVars == <<cls, args, error, self, state, result, op, arg, nEpoch, nCall>>
ccVars == <<spikes, bin, dt, method, cc>>
wcVars == <<wc_x, wc_y, wc_w, wc>>
vars == <<cls, args, error, self, state, result, op, arg, nEpoch, nCall,
          spikes, bin, dt, method, cc, wc_x, wc_y, wc_w, wc>>

----------------------------------------------------------------------------
(* Bounds of the model *)

MaxAdvance == 2     \* step_epoch / step_call calls explored per scheduler
MaxStep == 3        \* explicit steps -2 .. MaxStep are passed to __call__
MaxHist == 2        \* spike matrices have 0 .. MaxHist time steps
MaxNeu == 3         \* spike matrices have 0 .. MaxNeu neurons
MaxBin == 2         \* bin argument ranges over 1 .. MaxBin
MaxLen == 2         \* vectors given to weighted_correlation have 0 .. MaxLen entries

----------------------------------------------------------------------------
(* int32 arithmetic *)

INT32_MAX == 2147483647
INT32_MIN == -INT32_MAX - 1

\* x + 1 on an int32 array (wraps at the top of the range)
Inc32(x) == IF x = INT32_MAX THEN INT32_MIN ELSE x + 1

----------------------------------------------------------------------------
(* Exact rationals *)

RECURSIVE GCD(_, _)
GCD(a, b) == IF b = 0 THEN a ELSE GCD(b, a % b)

\* n/d in lowest terms, d > 0
Rat(n, d) ==
  LET g == GCD(d, n % d)
  IN [n |-> n \div g, d |-> d \div g]

RLe(x, y) == x.n * y.d <= y.n * x.d
RAdd(x, y) == Rat(x.n * y.d + y.n * x.d, x.d * y.d)
RDivInt(x, k) == Rat(x.n, x.d * k)
RSub(x, y) == Rat(x.n * y.d - y.n * x.d, x.d * y.d)
RMul(x, y) == Rat(x.n * y.n, x.d * y.d)
\* x / y for y # 0
RDiv(x, y) == IF y.n > 0 THEN Rat(x.n * y.d, x.d * y.n) ELSE Rat(-(x.n * y.d), x.d * (-y.n))

Zero == Rat(0, 1)
One == Rat(1, 1)

----------------------------------------------------------------------------
(* Closed forms returned by the schedulers *)

\* lr * gamma ** k: x ** 0 = 1, 1 ** k = 1 and 0 ** k = 0 for k > 0 are exact
Geom(lr, gamma, k) ==
  IF k = 0 \/ gamma = [n |-> 1, d |-> 1] THEN lr
  ELSE IF gamma = [n |-> 0, d |-> 1] /\ k > 0 THEN [n |-> 0, d |-> 1]
  ELSE [tag |-> "lr*gamma**k", lr |-> lr, gamma |-> gamma, k |-> k]

\* eta_min + (lr - eta_min) * (1 + cos(pi * x)) / 2
Cosine(lr, eta_min, x) ==
  [tag |-> "eta_min+(lr-eta_min)*(1+cos(pi*x))/2", lr |-> lr, eta_min |-> eta_min, x |-> x]

\* lr * decay_rate ** x
ExpDecay(lr, decay_rate, x) ==
  [tag |-> "lr*decay_rate**x", lr |-> lr, decay_rate |-> decay_rate, x |-> x]

\* lr / (1 + decay_rate * x)
InvTime(lr, decay_rate, x) ==
  [tag |-> "lr/(1+decay_rate*x)", lr |-> lr, decay_rate |-> decay_rate, x |-> x]

\* (1 - x) ** power * (lr - final_lr) + final_lr
Poly(lr, final_lr, power, x) ==
  [tag |-> "(1-x)**power*(lr-final_lr)+final_lr", lr |-> lr, final_lr |-> final_lr,
   power |-> power, x |-> x]

----------------------------------------------------------------------------
(* __call__ of every scheduler class.  slf: the instance's attributes,    *)
(* st: its State cells, a: the argument i (<<>> for None, <<i>> otherwise) *)

ConstantLR_call(slf, st, a) == slf.lr

StepLR_call(slf, st, a) ==
  LET i == IF a = <<>> THEN Inc32(st.last_epoch) ELSE a[1]
  IN Geom(slf.lr, slf.gamma, i \div slf.step_size)

\* jnp.argmax of a boolean vector: 0-based index of the first True, 0 if none
ArgMax(conditions) ==
  LET hits == {k \in 1..Len(conditions) : conditions[k]}
  IN IF hits = {} THEN 0
     ELSE (CHOOSE k \in hits : \A h \in hits : k <= h) - 1

MultiStepLR_call(slf, st, a) ==
  LET i == IF a = <<>> THEN Inc32(st.last_epoch) ELSE a[1]
      ms == slf.milestones
      conditions == [k \in 1..(Len(ms) - 1) |-> (i >= ms[k]) /\ (i < ms[k + 1])]
      p == ArgMax(conditions)
  IN Geom(slf.lr, slf.gamma, p)

CosineAnnealingLR_call(slf, st, a) ==
  LET i == IF a = <<>> THEN Inc32(st.last_epoch) ELSE a[1]
  IN Cosine(slf.lr, slf.eta_min, Rat(i, slf.T_max))

\* the largest T_0 * T_mult^n that is <= y, starting from p = T_0 * T_mult^k <= y
RECURSIVE CycleLength(_, _, _)
CycleLength(p, T_mult, y) ==
  IF p <= y \div T_mult THEN CycleLength(p * T_mult, T_mult, y) ELSE p

\* the exponents n with T_mult^n < 2^31 for which log(T_mult^n) / log(T_mult),
\* rounded to binary64 at each operation, is below n (log(243) / log(3) =
\* 4.999999999999999); for every other argument the floor of the rounded
\* quotient is the floor of the real one
FloorLogRoundsDown(T_mult) ==
  IF T_mult = 3 THEN {5, 10, 13, 15, 17} ELSE {}

\* jnp.floor(jnp.log(x) / jnp.log(T_mult)) for an exact power x = T_mult^n:
\* with 64-bit floats the rounded quotient, with 32-bit floats taken as exact
FloorLogOfPower(precision, T_mult, n) ==
  IF precision = 64 /\ n \in FloorLogRoundsDown(T_mult) THEN n - 1 ELSE n

\* the n >= 0 with p * T_mult^n <= y < p * T_mult^(n + 1), for p <= y
RECURSIVE FloorLog(_, _, _)
FloorLog(p, T_mult, y) ==
  IF p <= y \div T_mult THEN 1 + FloorLog(p * T_mult, T_mult, y) ELSE 0

\* <<T_cur, T_i>>; n = floor(log(x) / log(T_mult)) with x = epoch / T_0 *
\* (T_mult - 1) + 1 = y / T_0, an exact power of T_mult iff y = T_0 * T_mult^n
CosineAnnealingWarmRestarts_cond1(slf, epoch) ==
  IF slf.T_mult = 1
  THEN <<epoch % slf.T_0, slf.T_0>>
  ELSE LET y == epoch * (slf.T_mult - 1) + slf.T_0
           real == FloorLog(slf.T_0, slf.T_mult, y)
           n == IF y = CycleLength(slf.T_0, slf.T_mult, y)
                THEN FloorLogOfPower(slf.precision, slf.T_mult, real)
                ELSE real
           T_i == IF n = real THEN CycleLength(slf.T_0, slf.T_mult, y)
                  ELSE CycleLength(slf.T_0, slf.T_mult, y) \div slf.T_mult
       IN <<epoch - (T_i - slf.T_0) \div (slf.T_mult - 1), T_i>>

CosineAnnealingWarmRestarts_cond2(slf, epoch) == <<epoch, slf.T_0>>

CosineAnnealingWarmRestarts_current_epoch(slf, st, a) ==
  LET i == IF a = <<>> THEN Inc32(st.last_call) ELSE a[1]
  IN i \div slf.num_call_per_epoch

\* T_cur, T_i = jax.lax.cond(epoch >= self.T_0, self._cond1, self._cond2, epoch)
CosineAnnealingWarmRestarts_cond(slf, st, a) ==
  LET epoch == CosineAnnealingWarmRestarts_current_epoch(slf, st, a)
  IN IF epoch >= slf.T_0
     THEN CosineAnnealingWarmRestarts_cond1(slf, epoch)
     ELSE CosineAnnealingWarmRestarts_cond2(slf, epoch)

CosineAnnealingWarmRestarts_call(slf, st, a) ==
  LET T == CosineAnnealingWarmRestarts_cond(slf, st, a)
  IN Cosine(slf.lr, slf.eta_min, Rat(T[1], T[2]))

ExponentialLR_call(slf, st, a) ==
  LET i == IF a = <<>> THEN Inc32(st.last_epoch) ELSE a[1]
  IN Geom(slf.lr, slf.gamma, i)

ExponentialDecayLR_call(slf, st, a) ==
  LET i == IF a = <<>> THEN Inc32(st.last_call) ELSE a[1]
  IN ExpDecay(slf.lr, slf.decay_rate, Rat(i, slf.decay_steps))

InverseTimeDecayLR_call_nofloor(slf, st, a) ==
  LET i == IF a = <<>> THEN Inc32(st.last_call) ELSE a[1]
  IN InvTime(slf.lr, slf.decay_rate, Rat(i, slf.decay_steps))

InverseTimeDecayLR_call(slf, st, a) ==
  LET i == IF a = <<>> THEN Inc32(st.last_call) ELSE a[1]
  IN IF slf.staircase
     THEN InvTime(slf.lr, slf.decay_rate, Rat(i \div slf.decay_steps, 1))
     ELSE InvTime(slf.lr, slf.decay_rate, Rat(i, slf.decay_steps))

PolynomialDecayLR_call_lastepoch(slf, st, a) ==
  LET i0 == IF a = <<>> THEN Inc32(st.last_epoch) ELSE a[1]
      i == IF i0 <= slf.decay_steps THEN i0 ELSE slf.decay_steps
  IN Poly(slf.lr, slf.final_lr, slf.power, Rat(i, slf.decay_steps))

PolynomialDecayLR_call(slf, st, a) ==
  LET i0 == IF a = <<>> THEN Inc32(st.last_call) ELSE a[1]
      i == IF i0 <= slf.decay_steps THEN i0 ELSE slf.decay_steps
  IN Poly(slf.lr, slf.final_lr, slf.power, Rat(i, slf.decay_steps))

PiecewiseConstantLR_call_ge(slf, st, a) ==
  LET i == IF a = <<>> THEN Inc32(st.last_call) ELSE a[1]
      n == Cardinality({k \in 1..Len(slf.boundaries) : i >= slf.boundaries[k]})
  IN slf.values[n + 1]

\* values is 0-indexed in the code, 1-indexed here
PiecewiseConstantLR_call(slf, st, a) ==
  LET i == IF a = <<>> THEN Inc32(st.last_call) ELSE a[1]
      n == Cardinality({k \in 1..Len(slf.boundaries) : i > slf.boundaries[k]})
  IN slf.values[n + 1]

\* method resolution of __call__ on an instance of class c
Evaluate(c, slf, st, a) ==
  CASE c = "ConstantLR" -> ConstantLR_call(slf, st, a)
    [] c = "StepLR" -> StepLR_call(slf, st, a)
    [] c = "MultiStepLR" -> MultiStepLR_call(slf, st, a)
    [] c = "CosineAnnealingLR" -> CosineAnnealingLR_call(slf, st, a)
    [] c = "CosineAnnealingWarmRestarts" -> CosineAnnealingWarmRestarts_call(slf, st, a)
    [] c = "ExponentialLR" -> ExponentialLR_call(slf, st, a)
    [] c = "ExponentialDecayLR" -> ExponentialDecayLR_call(slf, st, a)
    [] c = "InverseTimeDecayLR" -> InverseTimeDecayLR_call(slf, st, a)
    [] c = "PolynomialDecayLR" -> PolynomialDecayLR_call(slf, st, a)
    [] c = "PiecewiseConstantLR" -> PiecewiseConstantLR_call(slf, st, a)

\* the subclasses of CallBasedLRScheduler
CallBasedClasses ==
  {"CosineAnnealingWarmRestarts", "ExponentialDecayLR", "InverseTimeDecayLR",
   "PolynomialDecayLR", "PiecewiseConstantLR"}

----------------------------------------------------------------------------
(* Constructors.  X_init_error is the exception X.__init__ raises for the *)
(* given arguments ("none" if it returns), in the order the checks run.   *)

\* the first exception of a sequence of checks
FirstError(checks) ==
  LET bad == {k \in 1..Len(checks) : checks[k] # "none"}
  IN IF bad = {} THEN "none"
     ELSE checks[CHOOSE k \in bad : \A h \in bad : k <= h]

Asserted(cond) == IF cond THEN "none" ELSE "AssertionError"
Required(cond) == IF cond THEN "none" ELSE "ValueError"

LearningRateScheduler_init_error(last_epoch) == Asserted(last_epoch >= -1)

CallBasedLRScheduler_init_error(last_epoch, last_call) ==
  FirstError(<<LearningRateScheduler_init_error(last_epoch), Asserted(last_call >= -1)>>)

StepLR_init_error(step_size, gamma, last_epoch) ==
  FirstError(<<LearningRateScheduler_init_error(last_epoch),
               Asserted(step_size >= 1),
               Asserted(RLe(gamma, One) /\ RLe(Zero, gamma))>>)

MultiStepLR_init_error_le(milestones, gamma, last_epoch) ==
  FirstError(<<LearningRateScheduler_init_error(last_epoch),
               Asserted(Len(milestones) > 0),
               Asserted(\A k \in 1..(Len(milestones) - 1) : milestones[k] <= milestones[k + 1]),
               Asserted(RLe(gamma, One) /\ RLe(Zero, gamma))>>)

MultiStepLR_init_error(milestones, gamma, last_epoch) ==
  FirstError(<<LearningRateScheduler_init_error(last_epoch),
               Asserted(Len(milestones) > 0),
               Asserted(\A k \in 1..(Len(milestones) - 1) : milestones[k] < milestones[k + 1]),
               Asserted(RLe(gamma, One) /\ RLe(Zero, gamma))>>)

CosineAnnealingLR_init_error(T_max, last_epoch) ==
  FirstError(<<LearningRateScheduler_init_error(last_epoch), Asserted(T_max >= 1)>>)

CosineAnnealingWarmRestarts_init_error(T_0, T_mult, last_epoch, last_call) ==
  FirstError(<<CallBasedLRScheduler_init_error(last_epoch, last_call),
               Required(~(T_0 <= 0)),
               Required(~(T_mult < 1))>>)

ExponentialLR_init_error(gamma, last_epoch) ==
  FirstError(<<LearningRateScheduler_init_error(last_epoch),
               Asserted(RLe(gamma, One) /\ RLe(Zero, gamma))>>)

\* jnp.array of a scalar, of a flat sequence, of a sequence of rows
Scalar(x) == [ndim |-> 0, data |-> <<x>>]
Vector(xs) == [ndim |-> 1, data |-> xs]
Matrix(rows) == [ndim |-> 2, data |-> rows]

\* shape[0] of an array with ndim >= 1
Shape0(array) == Len(array.data)

PiecewiseConstantLR_init_error_samelen(boundaries, values, last_epoch, last_call) ==
  FirstError(<<CallBasedLRScheduler_init_error(last_epoch, last_call),
               Required(boundaries.ndim = values.ndim /\ values.ndim = 1),
               Required(Shape0(boundaries) = Shape0(values))>>)

PiecewiseConstantLR_init_error(boundaries, values, last_epoch, last_call) ==
  FirstError(<<CallBasedLRScheduler_init_error(last_epoch, last_call),
               Required(boundaries.ndim = values.ndim /\ values.ndim = 1),
               Required(Shape0(boundaries) = Shape0(values) - 1)>>)

----------------------------------------------------------------------------
(* Arguments explored *)

Lrs == {Rat(1, 10)}
Gammas == {Rat(-1, 2), Zero, Rat(1, 2), One, Rat(3, 2)}
LastInputs == {-2, -1, INT32_MAX - 1, INT32_MAX}
StepSizes == {0, 1, 2}
MilestoneInputs ==
  {<<>>, <<1>>, <<1, 3>>, <<-3, 2>>, <<5, 3>>, <<2, 2>>, <<1, 3, 2>>, <<2, INT32_MAX>>}
TMaxInputs == {0, 2}
T0Inputs == {0, 1, 2}
TMultInputs == {0, 1, 2, 3}
CallsPerEpoch == {4}
\* the float width of the environment the scheduler runs in (bc.environ
\* precision): it fixes the dtype of jnp.floor, jnp.log and the division
Precisions == {32, 64}
EtaMins == {Zero}
DecaySteps == {2}
DecayRates == {Rat(1, 2)}
FinalLrs == {Rat(1, 100)}
Powers == {1}
BoundaryInputs ==
  {Vector(<<>>), Vector(<<1>>), Vector(<<1, 2>>), Vector(<<3, 1>>), Vector(<<10, 20>>),
   Scalar(1), Matrix(<<<<1>>>>)}
ValueInputs ==
  {Vector(<<Rat(1, 10)>>), Vector(<<Rat(1, 10), Rat(1, 100)>>),
   Vector(<<Rat(1, 10), Rat(1, 100), Rat(1, 1000)>>), Scalar(Rat(1, 10)),
   Matrix(<<<<Rat(1, 10)>>, <<Rat(1, 100)>>>>)}
StepInputs ==
  (-2..MaxStep) \cup {5, 10, 15, 20, 25} \cup {484} \cup {INT32_MAX - 1, INT32_MAX}
StepArgs == {<<>>} \cup {<<i>> : i \in StepInputs}

----------------------------------------------------------------------------
(* Scheduler actions *)

\* X(...): the constructor of class c is called with arguments a; it raises
\* err, or returns an instance with attributes attrs and State cells st
Construct(c, a, err, attrs, st) ==
  /\ cls = ""
  /\ cls' = c
  /\ args' = a
  /\ error' = err
  /\ self' = IF err = "none" THEN attrs ELSE <<>>
  /\ state' = IF err = "none" THEN st ELSE <<>>
  /\ op' = "__init__"
  /\ UNCHANGED <<result, arg, nEpoch, nCall>>
  /\ UNCHANGED <<ccVars, wcVars>>

NewConstantLR ==
  \E lr \in Lrs, last_epoch \in LastInputs :
    Construct("ConstantLR", [lr |-> lr, last_epoch |-> last_epoch],
              LearningRateScheduler_init_error(last_epoch),
              [lr |-> lr], [last_epoch |-> last_epoch])

NewStepLR ==
  \E lr \in Lrs, step_size \in StepSizes, gamma \in Gammas, last_epoch \in LastInputs :
    Construct("StepLR",
              [lr |-> lr, step_size |-> step_size, gamma |-> gamma, last_epoch |-> last_epoch],
              StepLR_init_error(step_size, gamma, last_epoch),
              [lr |-> lr, step_size |-> step_size, gamma |-> gamma],
              [last_epoch |-> last_epoch])

NewMultiStepLR ==
  \E lr \in Lrs, milestones \in MilestoneInputs, gamma \in Gammas, last_epoch \in LastInputs :
    Construct("MultiStepLR",
              [lr |-> lr, milestones |-> milestones, gamma |-> gamma, last_epoch |-> last_epoch],
              MultiStepLR_init_error(milestones, gamma, last_epoch),
              [lr |-> lr, milestones |-> <<-1>> \o milestones \o <<INT32_MAX>>, gamma |-> gamma],
              [last_epoch |-> last_epoch])

NewCosineAnnealingLR ==
  \E lr \in Lrs, T_max \in TMaxInputs, eta_min \in EtaMins, last_epoch \in LastInputs :
    Construct("CosineAnnealingLR",
              [lr |-> lr, T_max |-> T_max, eta_min |-> eta_min, last_epoch |-> last_epoch],
              CosineAnnealingLR_init_error(T_max, last_epoch),
              [lr |-> lr, T_max |-> T_max, eta_min |-> eta_min],
              [last_epoch |-> last_epoch])

NewCosineAnnealingWarmRestarts ==
  \E lr \in Lrs, n \in CallsPerEpoch, T_0 \in T0Inputs, T_mult \in TMultInputs,
     eta_min \in EtaMins, last_epoch \in LastInputs, last_call \in LastInputs,
     precision \in Precisions :
    Construct("CosineAnnealingWarmRestarts",
              [lr |-> lr, num_call_per_epoch |-> n, T_0 |-> T_0, T_mult |-> T_mult,
               eta_min |-> eta_min, last_epoch |-> last_epoch, last_call |-> last_call,
               precision |-> precision],
              CosineAnnealingWarmRestarts_init_error(T_0, T_mult, last_epoch, last_call),
              [lr |-> lr, num_call_per_epoch |-> n, T_0 |-> T_0, T_mult |-> T_mult,
               eta_min |-> eta_min, precision |-> precision],
              [last_epoch |-> last_epoch, last_call |-> last_call])

NewExponentialLR ==
  \E lr \in Lrs, gamma \in Gammas, last_epoch \in LastInputs :
    Construct("ExponentialLR",
              [lr |-> lr, gamma |-> gamma, last_epoch |-> last_epoch],
              ExponentialLR_init_error(gamma, last_epoch),
              [lr |-> lr, gamma |-> gamma],
              [last_epoch |-> last_epoch])

NewExponentialDecayLR ==
  \E lr \in Lrs, decay_steps \in DecaySteps, decay_rate \in DecayRates,
     last_epoch \in LastInputs, last_call \in LastInputs :
    Construct("ExponentialDecayLR",
              [lr |-> lr, decay_steps |-> decay_steps, decay_rate |-> decay_rate,
               last_epoch |-> last_epoch, last_call |-> last_call],
              CallBasedLRScheduler_init_error(last_epoch, last_call),
              [lr |-> lr, decay_steps |-> decay_steps, decay_rate |-> decay_rate],
              [last_epoch |-> last_epoch, last_call |-> last_call])

NewInverseTimeDecayLR ==
  \E lr \in Lrs, decay_steps \in DecaySteps, decay_rate \in DecayRates,
     staircase \in BOOLEAN, last_epoch \in LastInputs, last_call \in LastInputs :
    Construct("InverseTimeDecayLR",
              [lr |-> lr, decay_steps |-> decay_steps, decay_rate |-> decay_rate,
               staircase |-> staircase, last_epoch |-> last_epoch, last_call |-> last_call],
              CallBasedLRScheduler_init_error(last_epoch, last_call),
              [lr |-> lr, decay_steps |-> decay_steps, decay_rate |-> decay_rate,
               staircase |-> staircase],
              [last_epoch |-> last_epoch, last_call |-> last_call])

NewPolynomialDecayLR ==
  \E lr \in Lrs, decay_steps \in DecaySteps, final_lr \in FinalLrs, power \in Powers,
     last_epoch \in LastInputs, last_call \in LastInputs :
    Construct("PolynomialDecayLR",
              [lr |-> lr, decay_steps |-> decay_steps, final_lr |-> final_lr,
               power |-> power, last_epoch |-> last_epoch, last_call |-> last_call],
              CallBasedLRScheduler_init_error(last_epoch, last_call),
              [lr |-> lr, decay_steps |-> decay_steps, final_lr |-> final_lr, power |-> power],
              [last_epoch |-> last_epoch, last_call |-> last_call])

\* the base class is constructed with lr = 0.
NewPiecewiseConstantLR ==
  \E boundaries \in BoundaryInputs, values \in ValueInputs,
     last_epoch \in LastInputs, last_call \in LastInputs :
    Construct("PiecewiseConstantLR",
              [boundaries |-> boundaries, values |-> values,
               last_epoch |-> last_epoch, last_call |-> last_call],
              PiecewiseConstantLR_init_error(boundaries, values, last_epoch, last_call),
              [lr |-> Zero, boundaries |-> boundaries.data, values |-> values.data],
              [last_epoch |-> last_epoch, last_call |-> last_call])

\* an instance exists
Alive == cls # "" /\ error = "none"

\* LearningRateScheduler.step_epoch, inherited by every class
StepEpoch ==
  /\ Alive
  /\ nEpoch < MaxAdvance
  /\ state' = [state EXCEPT !.last_epoch = Inc32(@)]
  /\ nEpoch' = nEpoch + 1
  /\ op' = "step_epoch"
  /\ UNCHANGED <<cls, args, error, self, result, arg, nCall>>
  /\ UNCHANGED <<ccVars, wcVars>>

\* step_call: CallBasedLRScheduler overrides the base class's no-op
StepCall ==
  /\ Alive
  /\ nCall < MaxAdvance
  /\ state' = IF cls \in CallBasedClasses
              THEN [state EXCEPT !.last_call = Inc32(@)]
              ELSE state
  /\ nCall' = nCall + 1
  /\ op' = "step_call"
  /\ UNCHANGED <<cls, args, error, self, result, arg, nEpoch>>
  /\ UNCHANGED <<ccVars, wcVars>>

CallMutating(a) ==
  /\ Alive
  /\ result' = Evaluate(cls, self, state, a)
  /\ arg' = a
  /\ op' = "__call__"
  /\ state' = IF a = <<>> THEN [state EXCEPT !.last_epoch = Inc32(@)] ELSE state
  /\ UNCHANGED <<cls, args, error, self, nEpoch, nCall>>
  /\ UNCHANGED <<ccVars, wcVars>>

\* scheduler(i) / scheduler()
Call(a) ==
  /\ Alive
  /\ result' = Evaluate(cls, self, state, a)
  /\ arg' = a
  /\ op' = "__call__"
  /\ UNCHANGED <<cls, args, error, self, state, nEpoch, nCall>>
  /\ UNCHANGED <<ccVars, wcVars>>

CallAny == \E a \in StepArgs : Call(a)

Init ==
  /\ cls = "" /\ args = <<>> /\ error = "none" /\ self = <<>> /\ state = <<>>
  /\ result = <<>> /\ op = "" /\ arg = <<>> /\ nEpoch = 0 /\ nCall = 0
  /\ spikes = <<>> /\ bin = 0 /\ dt = 0 /\ method = "" /\ cc = <<>>
  /\ wc_x = <<>> /\ wc_y = <<>> /\ wc_w = <<>> /\ wc = <<>>

Next ==
  \/ NewConstantLR
  \/ NewStepLR
  \/ NewMultiStepLR
  \/ NewCosineAnnealingLR
  \/ NewCosineAnnealingWarmRestarts
  \/ NewExponentialLR
  \/ NewExponentialDecayLR
  \/ NewInverseTimeDecayLR
  \/ NewPolynomialDecayLR
  \/ NewPiecewiseConstantLR
  \/ StepEpoch
  \/ StepCall
  \/ CallAny

Spec == Init /\ [][Next]_vars

----------------------------------------------------------------------------
(* Properties of the schedulers *)

HasLastCall == "last_call" \in DOMAIN state

\* x after n int32 increments
RECURSIVE IncN(_, _)
IncN(x, n) == IF n = 0 THEN x ELSE IncN(Inc32(x), n - 1)

\* x = e + n over the integers, for an int32 x
IsSum(x, e, n) == e <= INT32_MAX - n /\ x = e + n

\* C1: evaluating a scheduler, with an explicit step or with none, leaves
\* last_epoch and last_call as they were; so the counters are always what the
\* step_epoch / step_call calls alone produce from the constructor's values.
C1_EvaluateLeavesState ==
  /\ [][op' = "__call__" => state' = state]_vars
  /\ [](Alive =>
          /\ state.last_epoch = IncN(args.last_epoch, nEpoch)
          /\ HasLastCall => state.last_call = IncN(args.last_call, nCall))

C1_Witness ==
  /\ op = "__call__" /\ HasLastCall
  /\ nEpoch > 0 /\ nCall > 0
  /\ result # <<>>

\* C2: step_epoch adds exactly 1 to last_epoch and step_call exactly 1 to
\* last_call, independently: on a call-based scheduler constructed with
\* (last_epoch = e0, last_call = c0), after a step_epoch calls and b step_call
\* calls last_epoch = e0 + a and last_call = c0 + b.
C2_CountersAreSums ==
  (Alive /\ cls \in CallBasedClasses) =>
    /\ IsSum(state.last_epoch, args.last_epoch, nEpoch)
    /\ IsSum(state.last_call, args.last_call, nCall)

\* the classes whose default step is last_epoch + 1
EpochBasedClasses == {"StepLR", "MultiStepLR", "CosineAnnealingLR", "ExponentialLR"}

\* C3: with the step omitted, an epoch-based scheduler evaluates at
\* last_epoch + 1 and a call-based scheduler at last_call + 1; so step_epoch does
\* not change what a call-based scheduler returns for an omitted step, and
\* step_call does not change what an epoch-based scheduler returns.
C3_DefaultStep ==
  /\ [](Alive =>
          /\ cls \in EpochBasedClasses =>
               Evaluate(cls, self, state, <<>>)
                 = Evaluate(cls, self, state, <<Inc32(state.last_epoch)>>)
          /\ cls \in CallBasedClasses =>
               Evaluate(cls, self, state, <<>>)
                 = Evaluate(cls, self, state, <<Inc32(state.last_call)>>))
  /\ [][/\ (op' = "step_epoch" /\ cls \in CallBasedClasses) =>
             Evaluate(cls, self, state', <<>>) = Evaluate(cls, self, state, <<>>)
        /\ (op' = "step_call" /\ cls \in EpochBasedClasses) =>
             Evaluate(cls, self, state', <<>>) = Evaluate(cls, self, state, <<>>)]_vars

C3_Witness ==
  /\ cls = "PolynomialDecayLR" /\ op = "__call__" /\ arg = <<>>
  /\ nEpoch > 0
  /\ state.last_epoch # state.last_call
  /\ result = Evaluate(cls, self, state, <<Inc32(state.last_call)>>)
  /\ result # Evaluate(cls, self, state, <<Inc32(state.last_epoch)>>)

\* C4: in every reachable state last_epoch >= -1 and last_call >= -1 (the
\* counters never decrease, also at the top of the int32 range).
C4_CountersAtLeastMinusOne ==
  Alive =>
    /\ state.last_epoch >= -1
    /\ HasLastCall => state.last_call >= -1

\* number of milestones <= i
CountLE(milestones, i) == Cardinality({k \in 1..Len(milestones) : milestones[k] <= i})

\* C5: a MultiStep scheduler returns base * gamma^k at step i, k the number of
\* milestones <= i, for every integer step i.
C5_MultiStepCountsMilestones ==
  (cls = "MultiStepLR" /\ op = "__call__" /\ arg # <<>>) =>
    result = Geom(args.lr, args.gamma, CountLE(args.milestones, arg[1]))

StrictlyIncreasing(xs) == \A k \in 1..(Len(xs) - 1) : xs[k] < xs[k + 1]

\* C6: a PiecewiseConstant scheduler returns values[c] at step i, c the number
\* of boundaries < i; c is an index of values; a step equal to a boundary
\* selects the value of the interval that ends there; with boundaries [10, 20]
\* and values [0.1, 0.01, 0.001] the steps 5, 15, 25 give 0.1, 0.01, 0.001.
C6_PiecewiseSelectsInterval ==
  (cls = "PiecewiseConstantLR" /\ Alive /\ op = "__call__") =>
    LET i == IF arg = <<>> THEN Inc32(state.last_call) ELSE arg[1]
        b == args.boundaries.data
        v == args.values.data
        c == Cardinality({k \in 1..Len(b) : b[k] < i})
    IN /\ c \in 0..Len(b)
       /\ c + 1 \in DOMAIN v
       /\ result = v[c + 1]
       /\ StrictlyIncreasing(b) => \A k \in 1..Len(b) : b[k] = i => result = v[k]
       /\ (b = <<10, 20>> /\ v = <<Rat(1, 10), Rat(1, 100), Rat(1, 1000)>>) =>
            /\ i = 5 => result = Rat(1, 10)
            /\ i = 15 => result = Rat(1, 100)
            /\ i = 25 => result = Rat(1, 1000)

C6_Witness ==
  /\ cls = "PiecewiseConstantLR" /\ op = "__call__"
  /\ args.boundaries = Vector(<<10, 20>>)
  /\ arg = <<20>>
  /\ result = Rat(1, 100)

\* C7: MultiStepLR(...) raises, and no scheduler exists, when the milestones
\* are empty or some adjacent pair is not increasing; it returns a scheduler for
\* every non-empty strictly increasing sequence with gamma in [0, 1] (and a
\* valid last_epoch).
C7_MultiStepValidatesMilestones ==
  cls = "MultiStepLR" =>
    LET m == args.milestones
        bad == Len(m) = 0 \/ \E k \in 1..(Len(m) - 1) : m[k] >= m[k + 1]
    IN /\ bad => (error = "AssertionError" /\ self = <<>> /\ state = <<>>)
       /\ (~bad /\ RLe(Zero, args.gamma) /\ RLe(args.gamma, One) /\ args.last_epoch >= -1) =>
            (error = "none" /\ self # <<>> /\ state = [last_epoch |-> IncN(args.last_epoch, nEpoch)])

C7_Witness ==
  /\ cls = "MultiStepLR"
  /\ args.milestones = <<5, 3>> /\ args.last_epoch = -1 /\ args.gamma = Rat(1, 2)
  /\ error = "AssertionError"

\* C8: PiecewiseConstantLR(...) raises whenever boundaries or values is not
\* 1-D or len(boundaries) # len(values) - 1, and no scheduler exists then; every
\* PiecewiseConstant scheduler has len(boundaries) = len(values) - 1.
C8_PiecewiseValidatesLengths ==
  cls = "PiecewiseConstantLR" =>
    LET b == args.boundaries
        v == args.values
        bad == b.ndim # 1 \/ v.ndim # 1 \/ Len(b.data) # Len(v.data) - 1
    IN /\ bad => (error # "none" /\ self = <<>> /\ state = <<>>)
       /\ (bad /\ args.last_epoch >= -1 /\ args.last_call >= -1) => error = "ValueError"
       /\ Alive => Len(self.boundaries) = Len(self.values) - 1

C8_Witness ==
  /\ cls = "PiecewiseConstantLR"
  /\ args.boundaries = Vector(<<1, 2>>)
  /\ args.values = Vector(<<Rat(1, 10), Rat(1, 100)>>)
  /\ error = "ValueError"

----------------------------------------------------------------------------
(* cross_correlation.  A spike matrix is [shape |-> <<num_hist, num_neu>>, *)
(* rows |-> the num_hist rows]; indices are 1-based here.                  *)

RECURSIVE SeqSum(_)
SeqSum(xs) == IF Len(xs) = 0 THEN 0 ELSE xs[1] + SeqSum(Tail(xs))

NaN == [tag |-> "nan"]

\* bin_size = int(bin / dt), for positive integers bin and dt
BinSize(b, d) == b \div d

\* num_bin = int(ceil(num_hist / bin_size))
NumBin(num_hist, bin_size) == (num_hist + bin_size - 1) \div bin_size

\* the rows after jnp.append of zero rows up to num_bin * bin_size rows
Padded(sp, bin_size) ==
  LET num_hist == sp.shape[1]
      num_neu == sp.shape[2]
      num_bin == NumBin(num_hist, bin_size)
  IN IF num_bin * bin_size # num_hist
     THEN sp.rows \o [k \in 1..(num_bin * bin_size - num_hist) |-> [j \in 1..num_neu |-> 0]]
     ELSE sp.rows

BinnedStatesSummed(sp, bin_size) ==
  LET rows == Padded(sp, bin_size)
      num_bin == NumBin(sp.shape[1], bin_size)
  IN [i \in 1..sp.shape[2] |->
       [b \in 1..num_bin |->
         SeqSum([k \in 1..bin_size |-> rows[(b - 1) * bin_size + k][i]])]]

\* states[i][b]: 1.0 if neuron i spikes in bin b, else 0.0
BinnedStates(sp, bin_size) ==
  LET rows == Padded(sp, bin_size)
      num_bin == NumBin(sp.shape[1], bin_size)
  IN [i \in 1..sp.shape[2] |->
       [b \in 1..num_bin |->
         IF SeqSum([k \in 1..bin_size |-> rows[(b - 1) * bin_size + k][i]]) > 0
         THEN 1 ELSE 0]]

\* jnp.tril_indices(n, k=-1): the pairs <<i, j>> with i > j, row by row
RECURSIVE TrilIndices(_)
TrilIndices(n) ==
  IF n <= 1 THEN <<>>
  ELSE TrilIndices(n - 1) \o [j \in 1..(n - 1) |-> <<n, j>>]

IsSquare(x) == \E r \in 0..x : r * r = x
Root(x) == CHOOSE r \in 0..x : r * r = x

\* a / sqrt(b) for b > 0: a rational if b is a perfect square, otherwise the
\* number whose square is a^2 / b
OverRoot(a, b) ==
  IF IsSquare(b) THEN Rat(a, Root(b))
  ELSE [tag |-> "sqrt", sq |-> Rat(a * a, b)]

PairValueUnguarded(states, i, j) ==
  LET prod == SeqSum(states[i]) * SeqSum(states[j])
      dot == SeqSum([b \in 1..Len(states[i]) |-> states[i][b] * states[j][b]])
  IN IF prod = 0 THEN NaN ELSE OverRoot(dot, prod)

PairValueOwnNorm(states, i, j) ==
  LET prod == SeqSum(states[i]) * SeqSum(states[i])
      dot == SeqSum([b \in 1..Len(states[i]) |-> states[i][b] * states[j][b]])
  IN IF prod = 0 THEN Zero ELSE OverRoot(dot, prod)

\* _f(i, j), method 'loop': the coherence of neurons i and j; lax.cond runs
\* one branch
PairValue(states, i, j) ==
  LET prod == SeqSum(states[i]) * SeqSum(states[j])
      dot == SeqSum([b \in 1..Len(states[i]) |-> states[i][b] * states[j][b]])
  IN IF prod = 0 THEN Zero ELSE OverRoot(dot, prod)

PairValueVmapUnselected(states, i, j) ==
  LET prod == SeqSum(states[i]) * SeqSum(states[j])
      dot == SeqSum([b \in 1..Len(states[i]) |-> states[i][b] * states[j][b]])
  IN IF prod = 0 THEN NaN ELSE OverRoot(dot, prod)

\* _cc(i, j), method 'vmap': under vmap lax.cond computes both branches (the
\* quotient is 0/0 = nan for a silent pair) and selects by the predicate
PairValueVmap(states, i, j) ==
  LET prod == SeqSum(states[i]) * SeqSum(states[j])
      dot == SeqSum([b \in 1..Len(states[i]) |-> states[i][b] * states[j][b]])
      on_true == Zero
      on_false == IF prod = 0 THEN NaN ELSE OverRoot(dot, prod)
  IN IF prod = 0 THEN on_true ELSE on_false

IsRat(x) == DOMAIN x = {"n", "d"}

RECURSIVE RatSum(_)
RatSum(xs) == IF Len(xs) = 0 THEN Zero ELSE RAdd(xs[1], RatSum(Tail(xs)))

\* the rational / irrational terms of xs, in order
RECURSIVE Rationals(_)
Rationals(xs) ==
  IF Len(xs) = 0 THEN <<>>
  ELSE IF IsRat(xs[1]) THEN <<xs[1]>> \o Rationals(Tail(xs)) ELSE Rationals(Tail(xs))

\* how often each irrational term occurs in xs
Irrationals(xs) ==
  LET ks == {k \in 1..Len(xs) : ~IsRat(xs[k])}
  IN [t \in {xs[k] : k \in ks} |-> Cardinality({k \in ks : xs[k] = t})]

\* jnp.mean over the reals: nan for an empty array, nan if a term is nan, the
\* exact mean if every term is rational, otherwise (rat + the sum of the
\* irrational terms) / count
Mean(xs) ==
  IF Len(xs) = 0 \/ \E k \in 1..Len(xs) : xs[k] = NaN THEN NaN
  ELSE IF \A k \in 1..Len(xs) : IsRat(xs[k]) THEN RDivInt(RatSum(xs), Len(xs))
  ELSE [tag |-> "mean", rat |-> RatSum(Rationals(xs)), roots |-> Irrationals(xs),
        count |-> Len(xs)]

\* the outcome of cross_correlation(spikes, bin, dt, method): an exception, or
\* the returned mean together with the pairs visited and the per-pair values
\* res it was taken over
cross_correlation(sp, b, d, m) ==
  LET bin_size == BinSize(b, d)
  IN IF bin_size = 0 THEN [error |-> "ZeroDivisionError"]
     ELSE LET states == BinnedStates(sp, bin_size)
              indices == TrilIndices(sp.shape[2])
          IN IF m = "loop"
             THEN LET res == [k \in 1..Len(indices) |->
                               PairValue(states, indices[k][1], indices[k][2])]
                  IN [value |-> Mean(res), res |-> res, pairs |-> indices]
             ELSE IF m = "vmap"
             THEN LET res == [k \in 1..Len(indices) |->
                               PairValueVmap(states, indices[k][1], indices[k][2])]
                  IN [value |-> Mean(res), res |-> res, pairs |-> indices]
             ELSE [error |-> "ValueError"]

SpikeInputs ==
  UNION {{[shape |-> <<T, N>>, rows |-> r] : r \in [1..T -> [1..N -> {0, 1}]]} :
           T \in 0..MaxHist, N \in 0..MaxNeu}
Dts == {1, 2}
Methods == {"loop", "vmap", "numpy"}

CrossCorrelation(m) ==
  /\ cc = <<>>
  /\ method' = m
  /\ cc' = cross_correlation(spikes, bin, dt, m)
  /\ UNCHANGED <<spikes, bin, dt>>
  /\ UNCHANGED <<schedVars, wcVars>>

InitCC ==
  /\ cls = "" /\ args = <<>> /\ error = "none" /\ self = <<>> /\ state = <<>>
  /\ result = <<>> /\ op = "" /\ arg = <<>> /\ nEpoch = 0 /\ nCall = 0
  /\ spikes \in SpikeInputs /\ bin \in 1..MaxBin /\ dt \in Dts
  /\ method = "" /\ cc = <<>>
  /\ wc_x = <<>> /\ wc_y = <<>> /\ wc_w = <<>> /\ wc = <<>>

NextCC == \E m \in Methods : CrossCorrelation(m)

SpecCC == InitCC /\ [][NextCC]_vars

----------------------------------------------------------------------------
(* Properties of cross_correlation *)

AllEntries(sp, x) ==
  \A t \in 1..sp.shape[1] : \A j \in 1..sp.shape[2] : sp.rows[t][j] = x

Returned == cc # <<>> /\ "value" \in DOMAIN cc

\* the call was made with bin_size >= 1 and a supported method
ValidCall == cc # <<>> /\ BinSize(bin, dt) >= 1 /\ method \in {"loop", "vmap"}

\* the matrix has at least one entry
NonEmpty(sp) == sp.shape[1] >= 1 /\ sp.shape[2] >= 1

\* C9 as stated: for every spike matrix whose entries are all 1 (any number of
\* time steps, any number of neurons, any bin_size >= 1) cross_correlation
\* returns exactly 1.0.
C9_AllOnesGivesOne_AnyShape ==
  (ValidCall /\ NonEmpty(spikes) /\ AllEntries(spikes, 1)) => (Returned /\ cc.value = One)

\* C9, amended: for every all-ones spike matrix with at least one time step and
\* at least two neurons, and any bin_size >= 1 (padded or not),
\* cross_correlation returns exactly 1.0.
C9_AllOnesGivesOne ==
  (ValidCall /\ AllEntries(spikes, 1) /\ spikes.shape[1] >= 1 /\ spikes.shape[2] >= 2) =>
    (Returned /\ cc.value = One)

\* an all-ones matrix of 3 neurons whose length is not a multiple of bin_size
C9_Witness ==
  /\ ValidCall /\ AllEntries(spikes, 1)
  /\ spikes.shape = <<1, 3>> /\ BinSize(bin, dt) = 2
  /\ cc.value = One

\* every pair with a silent binned train is valued exactly 0
SilentPairsAreZero ==
  LET states == BinnedStates(spikes, BinSize(bin, dt))
      indices == TrilIndices(spikes.shape[2])
  IN /\ Len(cc.res) = Len(indices)
     /\ \A k \in 1..Len(indices) :
          /\ cc.res[k] # NaN
          /\ (SeqSum(states[indices[k][1]]) = 0 \/ SeqSum(states[indices[k][2]]) = 0) =>
               cc.res[k] = Zero

\* C10 as stated: every pair with a silent binned train contributes exactly 0,
\* never NaN, and for every all-zero spike matrix the result is exactly 0.0.
C10_SilentPairsAndAllZero_AnyShape ==
  ValidCall =>
    /\ Returned
    /\ SilentPairsAreZero
    /\ (NonEmpty(spikes) /\ AllEntries(spikes, 0)) => cc.value = Zero

\* C10, amended: every pair with a silent binned train contributes exactly 0,
\* never NaN, and for every all-zero spike matrix with at least two neurons the
\* result is exactly 0.0.
C10_SilentPairsAndAllZero ==
  ValidCall =>
    /\ Returned
    /\ SilentPairsAreZero
    /\ (AllEntries(spikes, 0) /\ spikes.shape[2] >= 2) => cc.value = Zero

\* an all-zero matrix of 3 neurons, and a matrix with one silent neuron of 3
C10_Witness ==
  /\ ValidCall /\ Returned
  /\ spikes.shape = <<2, 3>>
  /\ \/ AllEntries(spikes, 0) /\ cc.value = Zero
     \/ spikes.rows = <<<<1, 0, 1>>, <<1, 0, 1>>>> /\ cc.res = <<Zero, One, Zero>>

\* the other of the two supported methods
OtherMethod(m) == IF m = "loop" THEN "vmap" ELSE "loop"

\* C11: method='loop' and method='vmap' are equivalent: for every spike
\* matrix, bin and dt they visit the same pairs, each lower-triangle pair
\* (i > j) exactly once, compute the same value for each pair and return the
\* same mean (or raise the same error).
C11_LoopEqualsVmap ==
  (cc # <<>> /\ method \in {"loop", "vmap"}) =>
    /\ cc = cross_correlation(spikes, bin, dt, OtherMethod(method))
    /\ Returned =>
         LET n == spikes.shape[2]
             lower == {q \in (1..n) \X (1..n) : q[1] > q[2]}
         IN /\ {cc.pairs[k] : k \in 1..Len(cc.pairs)} = lower
            /\ Len(cc.pairs) = Cardinality(lower)
            /\ Len(cc.res) = Len(cc.pairs)

\* a vmap call on 3 neurons with a silent pair and a pair of irrational value
C11_Witness ==
  /\ Returned /\ method = "vmap"
  /\ spikes.shape[2] = 3
  /\ \E k \in 1..Len(cc.res) : cc.res[k] = Zero
  /\ \E k \in 1..Len(cc.res) : ~IsRat(cc.res[k])
  /\ cc.value # NaN

\* S[:, p]: column j of the result is column p[j] of S
Permute(sp, p) ==
  [shape |-> sp.shape,
   rows |-> [t \in 1..sp.shape[1] |-> [j \in 1..sp.shape[2] |-> sp.rows[t][p[j]]]]]

NeuronPermutations(n) == {p \in [1..n -> 1..n] : \A a, b \in 1..n : p[a] = p[b] => a = b}

\* C12: cross_correlation is invariant to neuron permutation: for every spike
\* matrix S and permutation p of its columns, cross_correlation(S[:, p], bin, dt)
\* = cross_correlation(S, bin, dt), the mean being taken over the reals.
C12_PermutationInvariant ==
  (ValidCall /\ Returned) =>
    \A p \in NeuronPermutations(spikes.shape[2]) :
      cross_correlation(Permute(spikes, p), bin, dt, method).value = cc.value

\* 3 neurons, pair values 1/sqrt(2), 1/sqrt(2) and 0: columns are all different
C12_Witness ==
  /\ ValidCall /\ Returned
  /\ spikes.rows = <<<<1, 1, 0>>, <<1, 0, 1>>>> /\ BinSize(bin, dt) = 1
  /\ cc.value # NaN /\ ~IsRat(cc.value)
  /\ cc.value.count = 3

----------------------------------------------------------------------------
(* weighted_correlation *)

\* shapes (a,) and (b,) broadcast iff a = b or one of them is 1
Broadcastable(a, b) == a = b \/ a = 1 \/ b = 1
BroadcastLen(a, b) == IF a = 1 THEN b ELSE a

\* entry k of the vector v broadcast to a longer shape
At(v, k) == IF Len(v) = 1 THEN v[1] ELSE v[k]

\* jnp.sum of a vector of rationals
RECURSIVE RSum(_)
RSum(v) == IF Len(v) = 0 THEN Zero ELSE RAdd(v[1], RSum(Tail(v)))

\* a / b in floating point for any b: nan, +-inf or the quotient
Quotient(a, b) ==
  IF a = NaN \/ b = NaN THEN NaN
  ELSE IF b.n # 0 THEN RDiv(a, b)
  ELSE IF a.n = 0 THEN NaN
  ELSE [tag |-> "inf", sign |-> IF a.n > 0 THEN 1 ELSE -1]

\* _weighted_mean(x, w) = sum(x * w) / sum(w); x * w is broadcast, sum(w) is not
weighted_mean(xv, wv) ==
  LET n == BroadcastLen(Len(xv), Len(wv))
  IN Quotient(RSum([k \in 1..n |-> RMul(At(xv, k), At(wv, k))]), RSum(wv))

\* _weighted_cov(x, y, w) = sum(w * (x - mean_x) * (y - mean_y)) / sum(w)
weighted_cov(xv, yv, wv) ==
  LET mx == weighted_mean(xv, wv)
      my == weighted_mean(yv, wv)
      n == BroadcastLen(BroadcastLen(Len(wv), Len(xv)), Len(yv))
  IN IF ~IsRat(mx) \/ ~IsRat(my) THEN NaN
     ELSE Quotient(RSum([k \in 1..n |->
                      RMul(RMul(At(wv, k), RSub(At(xv, k), mx)), RSub(At(yv, k), my))]),
                   RSum(wv))

\* a / sqrt(b) for rationals a and b >= 0: nan or +-inf if b = 0, a rational if
\* b is the square of a rational, otherwise the number of sign sign(a) whose
\* square is a^2 / b
OverSqrt(a, b) ==
  IF a = NaN \/ b = NaN THEN NaN
  ELSE IF b.n = 0 THEN Quotient(a, b)
  ELSE IF IsSquare(b.n) /\ IsSquare(b.d) THEN RDiv(a, Rat(Root(b.n), Root(b.d)))
  ELSE [tag |-> "sqrt", sign |-> IF a.n > 0 THEN 1 ELSE IF a.n < 0 THEN -1 ELSE 0,
        sq |-> RDiv(RMul(a, a), b)]

\* the outcome of weighted_correlation(x, y, w): the ValueError of the ndim
\* checks, the error jnp raises for shapes that do not broadcast, or the value
weighted_correlation(ax, ay, aw) ==
  IF ax.ndim # 1 THEN [error |-> "ValueError", msg |-> "x must be a one-dimensional array"]
  ELSE IF ay.ndim # 1 THEN [error |-> "ValueError", msg |-> "y must be a one-dimensional array"]
  ELSE IF aw.ndim # 1 THEN [error |-> "ValueError", msg |-> "w must be a one-dimensional array"]
  ELSE IF \/ ~Broadcastable(Len(ax.data), Len(aw.data))
          \/ ~Broadcastable(Len(ay.data), Len(aw.data))
          \/ ~Broadcastable(BroadcastLen(Len(aw.data), Len(ax.data)), Len(ay.data))
  THEN [error |-> "IncompatibleShapes", msg |-> "shapes do not broadcast"]
  ELSE LET cxy == weighted_cov(ax.data, ay.data, aw.data)
           cxx == weighted_cov(ax.data, ax.data, aw.data)
           cyy == weighted_cov(ay.data, ay.data, aw.data)
       IN [value |-> IF cxx = NaN \/ cyy = NaN THEN NaN ELSE OverSqrt(cxy, RMul(cxx, cyy))]

\* arrays of 0, 1 and 2 dimensions over the values vals
ArrayInputs(vals) ==
  {Scalar(v) : v \in vals}
    \cup UNION {{Vector(xs) : xs \in [1..n -> vals]} : n \in 0..MaxLen}
    \cup {Matrix(<<<<v>>>>) : v \in vals}

SampleValues == {Rat(1, 1), Rat(2, 1)}
WeightValues == {Rat(0, 1), Rat(1, 1)}

WeightedCorrelation ==
  /\ wc = <<>>
  /\ wc' = weighted_correlation(wc_x, wc_y, wc_w)
  /\ UNCHANGED <<wc_x, wc_y, wc_w>>
  /\ UNCHANGED <<schedVars, ccVars>>

InitWC ==
  /\ cls = "" /\ args = <<>> /\ error = "none" /\ self = <<>> /\ state = <<>>
  /\ result = <<>> /\ op = "" /\ arg = <<>> /\ nEpoch = 0 /\ nCall = 0
  /\ spikes = <<>> /\ bin = 0 /\ dt = 0 /\ method = "" /\ cc = <<>>
  /\ wc_x \in ArrayInputs(SampleValues) /\ wc_y \in ArrayInputs(SampleValues)
  /\ wc_w \in ArrayInputs(WeightValues)
  /\ wc = <<>>

NextWC == WeightedCorrelation

SpecWC == InitWC /\ [][NextWC]_vars

\* C13: weighted_correlation(x, y, w) raises a shape/dimensionality error
\* whenever any of x, y, w is not one-dimensional or their lengths are not all
\* equal, including when one vector has length 1 and the others are longer.
C13_ShapeErrorUnlessSameLength ==
  (wc # <<>> /\ (\/ wc_x.ndim # 1 \/ wc_y.ndim # 1 \/ wc_w.ndim # 1
                 \/ Len(wc_x.data) # Len(wc_y.data)
                 \/ Len(wc_x.data) # Len(wc_w.data)))
    => "error" \in DOMAIN wc

----------------------------------------------------------------------------
(* InverseTimeDecayLR *)

\* the number lr / (1 + decay_rate * x) denoted by an InvTime term
InvTimeValue(t) == RDiv(t.lr, RAdd(One, RMul(t.decay_rate, t.x)))

\* steps small enough for the value to be computed exactly
SmallStep(i) == i \in 0..25

\* C14 as stated: evaluate(i) = base / (1 + decay_rate * s / decay_steps) with
\* s = i (staircase off) or s = floor(i / decay_steps) (staircase on), for
\* every step i >= 0.
C14_InverseTime_DividedStaircase ==
  (cls = "InverseTimeDecayLR" /\ Alive /\ op = "__call__") =>
    LET i == IF arg = <<>> THEN Inc32(state.last_call) ELSE arg[1]
        s == IF args.staircase THEN i \div args.decay_steps ELSE i
        claimed == InvTime(args.lr, args.decay_rate, Rat(s, args.decay_steps))
    IN i >= 0 =>
         /\ result = claimed
         /\ SmallStep(i) => InvTimeValue(result) = InvTimeValue(claimed)

\* C14: for an InverseTimeDecay scheduler and every step i >= 0, evaluate(i) =
\* base / (1 + decay_rate * i / decay_steps) when the staircase flag is off and
\* base / (1 + decay_rate * floor(i / decay_steps)) when it is on.
C14_InverseTime ==
  (cls = "InverseTimeDecayLR" /\ Alive /\ op = "__call__") =>
    LET i == IF arg = <<>> THEN Inc32(state.last_call) ELSE arg[1]
        x == IF args.staircase THEN Rat(i \div args.decay_steps, 1)
             ELSE Rat(i, args.decay_steps)
    IN i >= 0 =>
         /\ result = InvTime(args.lr, args.decay_rate, x)
         /\ SmallStep(i) =>
              InvTimeValue(result) = RDiv(args.lr, RAdd(One, RMul(args.decay_rate, x)))

\* staircase on, decay_steps = 2, i = 5: 0.1 / (1 + 0.5 * 2) = 0.05
C14_Witness ==
  /\ cls = "InverseTimeDecayLR" /\ Alive /\ op = "__call__"
  /\ args.staircase /\ args.decay_steps = 2 /\ args.decay_rate = Rat(1, 2)
  /\ args.lr = Rat(1, 10)
  /\ arg = <<5>>
  /\ InvTimeValue(result) = Rat(1, 20)

----------------------------------------------------------------------------
(* CosineAnnealingWarmRestarts *)

\* <<n, T_cur, T_i>> at epoch: n restart cycles of lengths T_0, T_0 * T_mult,
\* ... are completed, start is the first epoch of the running cycle and len
\* its length
RECURSIVE RestartCycle(_, _, _, _, _)
RestartCycle(n, start, len, T_mult, epoch) ==
  IF epoch - start >= len
  THEN RestartCycle(n + 1, start + len, len * T_mult, T_mult, epoch)
  ELSE <<n, epoch - start, len>>

\* C15: for a CosineAnnealingWarmRestarts scheduler with T_0 > 0 and
\* T_mult >= 1 and every step i >= 0, with epoch = floor(i / num_call_per_epoch)
\* and n the number of completed restart cycles: T_i = T_0 * T_mult^n, T_cur =
\* epoch - T_0 * (1 + ... + T_mult^(n-1)), 0 <= T_cur < T_i, and at every epoch
\* that starts a cycle T_cur = 0 and the rate is the base rate.
C15_WarmRestartsCycle ==
  (cls = "CosineAnnealingWarmRestarts" /\ Alive /\ op = "__call__") =>
    LET i == IF arg = <<>> THEN Inc32(state.last_call) ELSE arg[1]
        epoch == i \div args.num_call_per_epoch
        expected == IF args.T_mult = 1
                    THEN <<epoch \div args.T_0, epoch % args.T_0, args.T_0>>
                    ELSE RestartCycle(0, 0, args.T_0, args.T_mult, epoch)
        T == CosineAnnealingWarmRestarts_cond(self, state, arg)
    IN (i >= 0 /\ args.T_0 > 0 /\ args.T_mult >= 1) =>
         /\ T = <<expected[2], expected[3]>>
         /\ 0 <= T[1] /\ T[1] < T[2]
         /\ result = Cosine(args.lr, args.eta_min, Rat(expected[2], expected[3]))
         /\ expected[2] = 0 => result = Cosine(args.lr, args.eta_min, Zero)

====
